---- MODULE Spec2Model ----
(***************************************************************************)
(* Model of src/src/bin/17.rs: the constrained-run shortest-path search    *)
(* seek_end(input, min_distance, max_distance) over a digit grid.          *)
(*                                                                         *)
(* Rust values are modelled as follows.                                    *)
(*   Option<T>      the empty set (None) or a one-element set (Some(x))    *)
(*   Location(x,y)  the pair <<x, y>>, 0-based as in the source            *)
(*   Direction      one of the strings "North", "East", "South", "West"    *)
(*   Map            a sequence of rows, each a sequence of costs           *)
(*   Movement       a record; its `best` field (an Rc to a shared table)   *)
(*                  is the index of the table in the variable `cache`      *)
(*   BinaryHeap     a bag of Movements; pop takes any element that is      *)
(*                  greatest under Ord for Movement (least weight)         *)
(*   input: &str    the sequence of its lines (what str::lines yields),    *)
(*                  each a sequence of one-character strings               *)
(***************************************************************************)
EXTENDS Integers, Sequences, FiniteSets, Bags, TLC

\* Bounds of the explored inputs: at most MaxRows lines of at most MaxCols
\* characters; the rectangular grids of at most MaxCells cells (1x1 to 1x3,
\* 3x1 and 2x2) and every other text of fewer lines and fewer characters;
\* cell costs 0..MaxDigit; min_distance and max_distance in 0..MaxRun.
MaxRows == 3
MaxCols == 3
MaxCells == 4
MaxDigit == 1
MaxRun == 2

VARIABLES
    input,          \* the text handed to seek_end, as its lines
    min_distance,   \* seek_end's min_distance argument
    max_distance,   \* seek_end's max_distance argument
    pc,             \* position inside seek_end
    map,            \* the parsed Map
    to_visit,       \* the BinaryHeap of seek_end
    cache,          \* the best-cost tables created by Movement::new
    target,         \* seek_end's target (Option<Location>)
    best,           \* seek_end's best (Option<Movement>)
    node,           \* the Movement popped by the last loop iteration
    out,            \* what available_paths returned for it
    result,         \* what seek_end returned
    calls,          \* how many calls of seek_end were started
    prev,           \* the previous call: its max_distance and result
    other           \* the locals of a second, suspended call of seek_end

vars == <<input, min_distance, max_distance, pc, map, to_visit, cache,
          target, best, node, out, result, calls, prev, other>>

----------------------------------------------------------------------------
\* Option<T>
None == {}

Some(x) == {x}

Unwrap(o) == CHOOSE x \in o : TRUE

----------------------------------------------------------------------------
\* Direction

Directions == {"North", "East", "South", "West"}

Idx(d) ==
    CASE d = "North" -> 0
      [] d = "East"  -> 1
      [] d = "South" -> 2
      [] d = "West"  -> 3

LeftAboutTurn(d) ==
    CASE d = "North" -> "West"
      [] d = "East"  -> "North"
      [] d = "South" -> "North"
      [] d = "West"  -> "South"

Left(d) ==
    CASE d = "North" -> "West"
      [] d = "East"  -> "North"
      [] d = "South" -> "East"
      [] d = "West"  -> "South"

RightTurnsLeft(d) == Left(d)

Right(d) ==
    CASE d = "North" -> "East"
      [] d = "East"  -> "South"
      [] d = "South" -> "West"
      [] d = "West"  -> "North"

----------------------------------------------------------------------------
\* char::to_digit and parse_input

DigitChars == <<"0", "1", "2", "3", "4", "5", "6", "7", "8", "9">>

HexChars == DigitChars \o <<"a", "b", "c", "d", "e", "f">>

\* The characters the explored inputs are written in: the digits up to
\* MaxDigit and one character that is no decimal digit.
Chars == {DigitChars[i + 1] : i \in 0..MaxDigit} \cup {"a"}

ToDigitHex(ch) ==
    IF \E i \in 1..Len(HexChars) : HexChars[i] = ch
    THEN Some((CHOOSE i \in 1..Len(HexChars) : HexChars[i] = ch) - 1)
    ELSE None

\* char.to_digit(10)
ToDigit(ch) ==
    IF \E i \in 1..Len(DigitChars) : DigitChars[i] = ch
    THEN Some((CHOOSE i \in 1..Len(DigitChars) : DigitChars[i] = ch) - 1)
    ELSE None

\* parse_input: Err as soon as one character is no digit, else the Map.
ParseOk(text) ==
    \A i \in 1..Len(text) : \A j \in 1..Len(text[i]) : ToDigit(text[i][j]) # None

ParseInput(text) ==
    [i \in 1..Len(text) |-> [j \in 1..Len(text[i]) |-> Unwrap(ToDigit(text[i][j]))]]

----------------------------------------------------------------------------
\* Map and Location

\* Whether m.0[loc.0][loc.1] exists; indexing outside it panics.
InBounds(m, loc) ==
    /\ loc[1] >= 0
    /\ loc[1] < Len(m)
    /\ loc[2] >= 0
    /\ loc[2] < Len(m[loc[1] + 1])

Get(m, loc) == m[loc[1] + 1][loc[2] + 1]

GetLocationAlways(m, x, y) == Some(<<x, y>>)

GetLocationOffByOne(m, x, y) ==
    IF x < Len(m) /\ y <= Len(m[x + 1]) THEN Some(<<x, y>>) ELSE None

GetLocation(m, x, y) ==
    IF x < Len(m) /\ y < Len(m[x + 1]) THEN Some(<<x, y>>) ELSE None

\* self.0.len() - 1 and self.0[..].len() - 1 are usize subtractions: on an
\* empty dimension they underflow.
BottomRightUnderflows(m) == Len(m) = 0 \/ Len(m[Len(m)]) = 0

BottomRight(m) == <<Len(m) - 1, Len(m[Len(m)]) - 1>>

GoDirectionNoEdge(m, current, direction) ==
    CASE direction = "North" -> Some(<<current[1] - 1, current[2]>>)
      [] direction = "East"  -> GetLocation(m, current[1], current[2] + 1)
      [] direction = "South" -> GetLocation(m, current[1] + 1, current[2])
      [] direction = "West"  -> Some(<<current[1], current[2] - 1>>)

GoDirectionRowsForColumns(m, current, direction) ==
    CASE direction = "North" ->
            IF current[1] # 0 THEN Some(<<current[1] - 1, current[2]>>) ELSE None
      [] direction = "East"  -> GetLocation(m, current[1] + 1, current[2])
      [] direction = "South" -> GetLocation(m, current[1], current[2] + 1)
      [] direction = "West"  ->
            IF current[2] # 0 THEN Some(<<current[1], current[2] - 1>>) ELSE None

GoDirection(m, current, direction) ==
    CASE direction = "North" ->
            IF current[1] # 0 THEN Some(<<current[1] - 1, current[2]>>) ELSE None
      [] direction = "East"  -> GetLocation(m, current[1], current[2] + 1)
      [] direction = "South" -> GetLocation(m, current[1] + 1, current[2])
      [] direction = "West"  ->
            IF current[2] # 0 THEN Some(<<current[1], current[2] - 1>>) ELSE None

AbsDiffSum(a, b) == a + b

AbsDiff(a, b) == IF a >= b THEN a - b ELSE b - a

ManhattanDistSquares(a, b) ==
    AbsDiff(a[1], b[1]) * AbsDiff(a[1], b[1]) + AbsDiff(a[2], b[2]) * AbsDiff(a[2], b[2])

ManhattanDist(a, b) == AbsDiff(a[1], b[1]) + AbsDiff(a[2], b[2])

----------------------------------------------------------------------------
\* Movement

\* Movement::new's table: the shape of the map, [None; 4] in every cell.
Cells(m) ==
    UNION {{<<x, y>> : y \in 0..(Len(m[x + 1]) - 1)} : x \in 0..(Len(m) - 1)}

NewCache(m) == [k \in {<<c[1], c[2], i>> : c \in Cells(m), i \in 0..3} |-> None]

MovementNewStaticTable(location, direction, min_d, max_d, table) ==
    [location |-> location, direction |-> direction,
     min_distance |-> min_d, max_distance |-> max_d,
     current_distance |-> 0, total_cost |-> 0, best |-> 1]

MovementNew(location, direction, min_d, max_d, table) ==
    [location |-> location, direction |-> direction,
     min_distance |-> min_d, max_distance |-> max_d,
     current_distance |-> 0, total_cost |-> 0, best |-> table]

Weight(self) == self.total_cost + ManhattanDist(self.location, BottomRight(map))

\* Ord for Movement is the reversed order of the weights, and the heap pops
\* a greatest element: one of least weight.
IsPopCandidateNotReversed(n) ==
    /\ n \in BagToSet(to_visit)
    /\ \A o \in BagToSet(to_visit) : Weight(n) >= Weight(o)

IsPopCandidate(n) ==
    /\ n \in BagToSet(to_visit)
    /\ \A o \in BagToSet(to_visit) : Weight(n) <= Weight(o)

\* The outcome of test_path and of available_paths: the Movements produced,
\* the tables as they leave them, and whether an index was out of bounds
\* (a panic).
Outcome(nodes, tables, panic) == [nodes |-> nodes, tables |-> tables, panic |-> panic]

TestPathRunZero(self, new_direction, tables) ==
    LET new_loc_opt == GoDirection(map, self.location, new_direction) IN
    IF new_loc_opt = None THEN Outcome(<<>>, tables, FALSE)
    ELSE
      LET new_loc == Unwrap(new_loc_opt) IN
      IF ~InBounds(map, new_loc) THEN Outcome(<<>>, tables, TRUE)
      ELSE
        LET total_cost == self.total_cost + Get(map, new_loc)
            key == <<new_loc[1], new_loc[2], Idx(new_direction)>>
            lowest_cost == tables[self.best][key]
        IN  IF lowest_cost # None /\ ~(total_cost < Unwrap(lowest_cost))
            THEN Outcome(<<>>, tables, FALSE)
            ELSE Outcome(<<[self EXCEPT !.location = new_loc,
                                        !.direction = new_direction,
                                        !.current_distance = 0,
                                        !.total_cost = total_cost]>>,
                         [tables EXCEPT ![self.best][key] = Some(total_cost)],
                         FALSE)

TestPathNoUpdate(self, new_direction, tables) ==
    LET new_loc_opt == GoDirection(map, self.location, new_direction) IN
    IF new_loc_opt = None THEN Outcome(<<>>, tables, FALSE)
    ELSE
      LET new_loc == Unwrap(new_loc_opt) IN
      IF ~InBounds(map, new_loc) THEN Outcome(<<>>, tables, TRUE)
      ELSE
        LET total_cost == self.total_cost + Get(map, new_loc)
            key == <<new_loc[1], new_loc[2], Idx(new_direction)>>
            lowest_cost == tables[self.best][key]
        IN  IF lowest_cost # None /\ ~(total_cost < Unwrap(lowest_cost))
            THEN Outcome(<<>>, tables, FALSE)
            ELSE Outcome(<<[self EXCEPT !.location = new_loc,
                                        !.direction = new_direction,
                                        !.current_distance = 1,
                                        !.total_cost = total_cost]>>,
                         tables,
                         FALSE)

TestPathNotStrict(self, new_direction, tables) ==
    LET new_loc_opt == GoDirection(map, self.location, new_direction) IN
    IF new_loc_opt = None THEN Outcome(<<>>, tables, FALSE)
    ELSE
      LET new_loc == Unwrap(new_loc_opt) IN
      IF ~InBounds(map, new_loc) THEN Outcome(<<>>, tables, TRUE)
      ELSE
        LET total_cost == self.total_cost + Get(map, new_loc)
            key == <<new_loc[1], new_loc[2], Idx(new_direction)>>
            lowest_cost == tables[self.best][key]
        IN  IF lowest_cost # None /\ ~(total_cost <= Unwrap(lowest_cost))
            THEN Outcome(<<>>, tables, FALSE)
            ELSE Outcome(<<[self EXCEPT !.location = new_loc,
                                        !.direction = new_direction,
                                        !.current_distance = 1,
                                        !.total_cost = total_cost]>>,
                         [tables EXCEPT ![self.best][key] = Some(total_cost)],
                         FALSE)

TestPathAcceptsTies(self, new_direction, tables) ==
    LET new_loc_opt == GoDirection(map, self.location, new_direction) IN
    IF new_loc_opt = None THEN Outcome(<<>>, tables, FALSE)
    ELSE
      LET new_loc == Unwrap(new_loc_opt) IN
      IF ~InBounds(map, new_loc) THEN Outcome(<<>>, tables, TRUE)
      ELSE
        LET total_cost == self.total_cost + Get(map, new_loc)
            key == <<new_loc[1], new_loc[2], Idx(new_direction)>>
            lowest_cost == tables[self.best][key]
        IN  IF lowest_cost # None /\ total_cost > Unwrap(lowest_cost)
            THEN Outcome(<<>>, tables, FALSE)
            ELSE Outcome(<<[self EXCEPT !.location = new_loc,
                                        !.direction = new_direction,
                                        !.current_distance = 1,
                                        !.total_cost = total_cost]>>,
                         IF lowest_cost = None
                         THEN [tables EXCEPT ![self.best][key] = Some(total_cost)]
                         ELSE tables,
                         FALSE)

TestPathRecordsDiscarded(self, new_direction, tables) ==
    LET new_loc_opt == GoDirection(map, self.location, new_direction) IN
    IF new_loc_opt = None THEN Outcome(<<>>, tables, FALSE)
    ELSE
      LET new_loc == Unwrap(new_loc_opt) IN
      IF ~InBounds(map, new_loc) THEN Outcome(<<>>, tables, TRUE)
      ELSE
        LET total_cost == self.total_cost + Get(map, new_loc)
            key == <<new_loc[1], new_loc[2], Idx(new_direction)>>
            lowest_cost == tables[self.best][key]
            written == [tables EXCEPT ![self.best][key] = Some(total_cost)]
        IN  IF lowest_cost # None /\ ~(total_cost < Unwrap(lowest_cost))
            THEN Outcome(<<>>, written, FALSE)
            ELSE Outcome(<<[self EXCEPT !.location = new_loc,
                                        !.direction = new_direction,
                                        !.current_distance = 1,
                                        !.total_cost = total_cost]>>,
                         written,
                         FALSE)

TestPathFirstTable(self, new_direction, tables) ==
    LET new_loc_opt == GoDirection(map, self.location, new_direction) IN
    IF new_loc_opt = None THEN Outcome(<<>>, tables, FALSE)
    ELSE
      LET new_loc == Unwrap(new_loc_opt) IN
      IF ~InBounds(map, new_loc) THEN Outcome(<<>>, tables, TRUE)
      ELSE
        LET total_cost == self.total_cost + Get(map, new_loc)
            key == <<new_loc[1], new_loc[2], Idx(new_direction)>>
            lowest_cost == tables[1][key]
        IN  IF lowest_cost # None /\ ~(total_cost < Unwrap(lowest_cost))
            THEN Outcome(<<>>, tables, FALSE)
            ELSE Outcome(<<[self EXCEPT !.location = new_loc,
                                        !.direction = new_direction,
                                        !.current_distance = 1,
                                        !.total_cost = total_cost]>>,
                         [tables EXCEPT ![1][key] = Some(total_cost)],
                         FALSE)

TestPath(self, new_direction, tables) ==
    LET new_loc_opt == GoDirection(map, self.location, new_direction) IN
    IF new_loc_opt = None THEN Outcome(<<>>, tables, FALSE)
    ELSE
      LET new_loc == Unwrap(new_loc_opt) IN
      IF ~InBounds(map, new_loc) THEN Outcome(<<>>, tables, TRUE)
      ELSE
        LET total_cost == self.total_cost + Get(map, new_loc)
            key == <<new_loc[1], new_loc[2], Idx(new_direction)>>
            lowest_cost == tables[self.best][key]
        IN  IF lowest_cost # None /\ ~(total_cost < Unwrap(lowest_cost))
            THEN Outcome(<<>>, tables, FALSE)
            ELSE Outcome(<<[self EXCEPT !.location = new_loc,
                                        !.direction = new_direction,
                                        !.current_distance = 1,
                                        !.total_cost = total_cost]>>,
                         [tables EXCEPT ![self.best][key] = Some(total_cost)],
                         FALSE)

ContinueCostNotAdded(self) ==
    IF self.current_distance < self.max_distance
    THEN LET next_loc_opt == GoDirection(map, self.location, self.direction) IN
         IF next_loc_opt = None THEN Outcome(<<>>, <<>>, FALSE)
         ELSE LET next_loc == Unwrap(next_loc_opt) IN
              IF ~InBounds(map, next_loc) THEN Outcome(<<>>, <<>>, TRUE)
              ELSE Outcome(<<[self EXCEPT
                                !.location = next_loc,
                                !.current_distance = self.current_distance + 1,
                                !.total_cost = Get(map, next_loc)]>>,
                           <<>>, FALSE)
    ELSE Outcome(<<>>, <<>>, FALSE)

ContinueOneTooFar(self) ==
    IF self.current_distance <= self.max_distance
    THEN LET next_loc_opt == GoDirection(map, self.location, self.direction) IN
         IF next_loc_opt = None THEN Outcome(<<>>, <<>>, FALSE)
         ELSE LET next_loc == Unwrap(next_loc_opt) IN
              IF ~InBounds(map, next_loc) THEN Outcome(<<>>, <<>>, TRUE)
              ELSE Outcome(<<[self EXCEPT
                                !.location = next_loc,
                                !.current_distance = self.current_distance + 1,
                                !.total_cost = self.total_cost + Get(map, next_loc)]>>,
                           <<>>, FALSE)
    ELSE Outcome(<<>>, <<>>, FALSE)

\* The straight-ahead part of available_paths (lines 217-231).
Continue(self) ==
    IF self.current_distance < self.max_distance
    THEN LET next_loc_opt == GoDirection(map, self.location, self.direction) IN
         IF next_loc_opt = None THEN Outcome(<<>>, <<>>, FALSE)
         ELSE LET next_loc == Unwrap(next_loc_opt) IN
              IF ~InBounds(map, next_loc) THEN Outcome(<<>>, <<>>, TRUE)
              ELSE Outcome(<<[self EXCEPT
                                !.location = next_loc,
                                !.current_distance = self.current_distance + 1,
                                !.total_cost = self.total_cost + Get(map, next_loc)]>>,
                           <<>>, FALSE)
    ELSE Outcome(<<>>, <<>>, FALSE)

CanTurnAtMax(self) == self.current_distance >= self.max_distance

CanTurnFromSeed(self) ==
    self.current_distance = 0 \/ self.current_distance >= self.min_distance

\* Line 203: can_turn
CanTurn(self) == self.current_distance >= self.min_distance

AvailablePaths(self, tables) ==
    LET can_turn == CanTurn(self)
        left  == IF can_turn THEN TestPath(self, Left(self.direction), tables)
                 ELSE Outcome(<<>>, tables, FALSE)
        right == IF can_turn /\ ~left.panic
                 THEN TestPath(self, Right(self.direction), left.tables)
                 ELSE Outcome(<<>>, left.tables, FALSE)
        ahead == IF left.panic \/ right.panic THEN Outcome(<<>>, <<>>, FALSE)
                 ELSE Continue(self)
    IN  Outcome(left.nodes \o right.nodes \o ahead.nodes,
                right.tables,
                left.panic \/ right.panic \/ ahead.panic)

----------------------------------------------------------------------------
\* seek_end

Running == [kind |-> "Running", val |-> None, err |-> ""]

Ok(v) == [kind |-> "Ok", val |-> v, err |-> ""]

Err(msg) == [kind |-> "Err", val |-> None, err |-> msg]

Panic(msg) == [kind |-> "Panic", val |-> None, err |-> msg]

NoPrev == [max_distance |-> 0, result |-> Running]

IsTerminalAnyRun(next_node) == Some(next_node.location) = target

\* Lines 263-274: the terminal test of one next_node and the update of best.
IsTerminal(next_node) ==
    /\ Some(next_node.location) = target
    /\ next_node.current_distance >= min_distance

RecordBestLast(b, next_node) ==
    IF IsTerminal(next_node) THEN Some(next_node) ELSE b

RecordBestFirst(b, next_node) ==
    IF IsTerminal(next_node) /\ b = None THEN Some(next_node) ELSE b

RecordBest(b, next_node) ==
    IF IsTerminal(next_node)
    THEN IF b = None \/ next_node.total_cost < Unwrap(b).total_cost
         THEN Some(next_node)
         ELSE b
    ELSE b

\* The for loop of lines 262-276 over the nodes of available_paths.
RECURSIVE RecordAll(_, _)
RecordAll(b, nodes) ==
    IF nodes = <<>> THEN b
    ELSE RecordAll(RecordBest(b, Head(nodes)), Tail(nodes))

RECURSIVE PushAll(_, _)
PushAll(heap, nodes) ==
    IF nodes = <<>> THEN heap
    ELSE PushAll(heap (+) SetToBag({Head(nodes)}), Tail(nodes))

Min(a, b) == IF a <= b THEN a ELSE b

\* The lines of at most k characters.
Lines(k) == UNION {[1..j -> Chars] : j \in 0..k}

\* The texts of at most `rows` lines of at most MaxCols characters each and
\* `cells` characters in all.
RECURSIVE Texts(_, _)
Texts(rows, cells) ==
    IF rows = 0 THEN {<<>>}
    ELSE {<<>>} \cup
         UNION {{<<l>> \o t : t \in Texts(rows - 1, cells - Len(l))} :
                l \in Lines(Min(cells, MaxCols))}

\* The rectangular grids of digits of at most MaxRows rows, MaxCols columns
\* and MaxCells cells.
Grids ==
    UNION {[1..r -> [1..c -> Chars \ {"a"}]] :
           <<r, c>> \in {rc \in (1..MaxRows) \X (1..MaxCols) : rc[1] * rc[2] <= MaxCells}}

\* Every such grid, and every text at all (ragged, empty, with a character
\* that is no digit) of fewer than MaxRows lines and fewer than MaxCells
\* characters.
Inputs == Grids \cup Texts(MaxRows - 1, MaxCells - 1)

Init ==
    /\ input \in Inputs
    /\ min_distance \in 0..MaxRun
    /\ max_distance \in 0..MaxRun
    /\ pc = "parse"
    /\ map = <<>>
    /\ to_visit = EmptyBag
    /\ cache = <<>>
    /\ target = None
    /\ best = None
    /\ node = None
    /\ out = <<>>
    /\ result = Running
    /\ calls = 1
    /\ prev = NoPrev
    /\ other = None

\* Line 238: parse_input(input).context(..)?
Parse ==
    /\ pc = "parse"
    /\ IF ParseOk(input)
       THEN /\ map' = ParseInput(input)
            /\ pc' = "seed_east"
            /\ UNCHANGED result
       ELSE /\ pc' = "done"
            /\ result' = Err("Failed to parse input")
            /\ UNCHANGED map
    /\ UNCHANGED <<other, input, min_distance, max_distance, to_visit, cache, target,
                   best, node, out, calls, prev>>

\* Lines 240-247: the first push, of the seed heading East.
SeedEast ==
    /\ pc = "seed_east"
    /\ LET origin == GetLocation(map, 0, 0) IN
       IF origin = None
       THEN /\ pc' = "done"
            /\ result' = Err("Expected to find (0,0)")
            /\ UNCHANGED <<to_visit, cache>>
       ELSE /\ cache' = Append(cache, NewCache(map))
            /\ to_visit' = to_visit (+) SetToBag({MovementNew(Unwrap(origin), "East",
                                min_distance, max_distance, Len(cache) + 1)})
            /\ pc' = "seed_south"
            /\ UNCHANGED result
    /\ UNCHANGED <<other, input, min_distance, max_distance, map, target, best, node,
                   out, calls, prev>>

\* Lines 248-254: the second push, of the seed heading South. Pushing onto a
\* non-empty heap compares two Movements, and Ord for Movement calls
\* bottom_right: when the last row is empty its `len() - 1` underflows, which
\* panics in a build with overflow checks and wraps in one without.
SeedSouth ==
    /\ pc = "seed_south"
    /\ LET origin == GetLocation(map, 0, 0) IN
       IF origin = None
       THEN /\ pc' = "done"
            /\ result' = Err("Expected to find (0,0)")
            /\ UNCHANGED <<to_visit, cache>>
       ELSE /\ cache' = Append(cache, NewCache(map))
            /\ to_visit' = to_visit (+) SetToBag({MovementNew(Unwrap(origin), "South",
                                min_distance, max_distance, Len(cache) + 1)})
            /\ \/ /\ pc' = "target"
                  /\ UNCHANGED result
               \/ /\ BottomRightUnderflows(map)
                  /\ pc' = "done"
                  /\ result' = Panic("attempt to subtract with overflow")
    /\ UNCHANGED <<other, input, min_distance, max_distance, map, target, best, node,
                   out, calls, prev>>

\* Lines 256-259. With an empty last row this point is reached only where
\* the subtraction wrapped to usize::MAX, a column no row has.
Target ==
    /\ pc = "target"
    /\ IF BottomRightUnderflows(map)
       THEN /\ pc' = "done"
            /\ result' = Err("Expected to find bottom right")
            /\ UNCHANGED target
       ELSE /\ target' = GetLocation(map, BottomRight(map)[1], BottomRight(map)[2])
            /\ pc' = "loop"
            /\ UNCHANGED result
    /\ UNCHANGED <<other, input, min_distance, max_distance, map, to_visit, cache, best,
                   node, out, calls, prev>>

\* Lines 260-277: one iteration of the while loop.
Expand ==
    /\ pc = "loop"
    /\ to_visit # EmptyBag
    /\ \E n \in BagToSet(to_visit) :
         /\ IsPopCandidate(n)
         /\ \E paths \in {AvailablePaths(n, cache)} :
            /\ node' = Some(n)
            /\ IF paths.panic
               THEN /\ pc' = "done"
                    /\ result' = Panic("index out of bounds")
                    /\ to_visit' = to_visit (-) SetToBag({n})
                    /\ out' = <<>>
                    /\ UNCHANGED <<cache, best>>
               ELSE /\ out' = paths.nodes
                    /\ cache' = paths.tables
                    /\ best' = RecordAll(best, paths.nodes)
                    /\ to_visit' = PushAll(to_visit (-) SetToBag({n}), paths.nodes)
                    /\ UNCHANGED <<pc, result>>
    /\ UNCHANGED <<other, input, min_distance, max_distance, map, target, calls, prev>>

ReturnEarly ==
    /\ pc = "loop"
    /\ (to_visit = EmptyBag \/ best # None)
    /\ pc' = "done"
    /\ result' = Ok(IF best = None THEN None ELSE Some(Unwrap(best).total_cost))
    /\ UNCHANGED <<other, input, min_distance, max_distance, map, to_visit, cache, target,
                   best, node, out, calls, prev>>

\* Line 278: Ok(best.map(|n| n.total_cost))
Return ==
    /\ pc = "loop"
    /\ to_visit = EmptyBag
    /\ pc' = "done"
    /\ result' = Ok(IF best = None THEN None ELSE Some(Unwrap(best).total_cost))
    /\ UNCHANGED <<other, input, min_distance, max_distance, map, to_visit, cache, target,
                   best, node, out, calls, prev>>

\* Lines 293-299: after a call that returned Ok, seek_end is called again on
\* the same input, as part_two follows part_one; here with the same
\* min_distance and a max_distance that is not smaller.
CallAgain ==
    /\ pc = "done"
    /\ calls = 1
    /\ result.kind = "Ok"
    /\ \E m \in max_distance..MaxRun :
         /\ max_distance' = m
         /\ prev' = [max_distance |-> max_distance, result |-> result]
    /\ calls' = 2
    /\ pc' = "parse"
    /\ map' = <<>>
    /\ to_visit' = EmptyBag
    /\ cache' = <<>>
    /\ target' = None
    /\ best' = None
    /\ node' = None
    /\ out' = <<>>
    /\ result' = Running
    /\ UNCHANGED <<other, input, min_distance>>

Next ==
    \/ Parse
    \/ SeedEast
    \/ SeedSouth
    \/ Target
    \/ Expand
    \/ Return
    \/ CallAgain

Spec == Init /\ [][Next]_vars

----------------------------------------------------------------------------
\* available_paths (and with it test_path) as a function of the Movement and
\* of the table it is handed: one call on a Movement that may turn and may go
\* straight, on a grid with a second row and a second column, with a table
\* that is empty or holds one cost under the (location, heading) of one of
\* the three candidates. cache[2] is the table of the Movement and cache[1]
\* a copy of it as it was before the call.

TableGrids == {g \in Grids : Len(g) >= 2 /\ Len(g[1]) >= 2}

\* Of these grids, those where the origin's cost, which no route pays, is 0
\* and every other cell costs 0 or MaxDigit.
ZeroOrMaxGrids ==
    {g \in TableGrids :
        /\ g[1][1] = "0"
        /\ \A i \in 1..Len(g) : \A j \in 1..Len(g[i]) :
              g[i][j] \in {"0", DigitChars[MaxDigit + 1]}}

Entries == {None} \cup {Some(v) : v \in 0..(MaxDigit + 1)}

CandidateKeys(m, loc, d) ==
    {<<c[1], c[2], Idx(h)>> :
        <<c, h>> \in {q \in Cells(m) \X {Left(d), Right(d), d} :
                        q[1] \in GoDirection(m, loc, q[2])}}

InitTables ==
    /\ input \in TableGrids
    /\ map = ParseInput(input)
    /\ min_distance = 0
    /\ max_distance = MaxRun
    /\ pc = "available_paths"
    /\ to_visit = EmptyBag
    /\ target = Some(BottomRight(map))
    /\ best = None
    /\ out = <<>>
    /\ result = Running
    /\ calls = 1
    /\ prev = NoPrev
    /\ other = None
    /\ \E loc \in Cells(map), d \in Directions, g \in 0..MaxDigit :
         /\ node = Some([MovementNew(loc, d, min_distance, max_distance, 2)
                            EXCEPT !.current_distance = 1, !.total_cost = g])
         /\ \E k \in CandidateKeys(map, loc, d), e \in Entries :
              cache = <<[NewCache(map) EXCEPT ![k] = e],
                        [NewCache(map) EXCEPT ![k] = e]>>

AvailablePathsCall ==
    /\ pc = "available_paths"
    /\ LET paths == AvailablePaths(Unwrap(node), cache) IN
         /\ ~paths.panic
         /\ out' = paths.nodes
         /\ cache' = paths.tables
    /\ pc' = "tested"
    /\ UNCHANGED <<other, input, min_distance, max_distance, map, to_visit, target,
                   best, node, result, calls, prev>>

NextTables ==
    \/ Parse
    \/ SeedEast
    \/ SeedSouth
    \/ Target
    \/ Expand
    \/ Return
    \/ CallAgain
    \/ AvailablePathsCall

\* The calls of seek_end on the grids of ZeroOrMaxGrids together with the
\* single calls of available_paths.
SpecTables ==
    ((Init /\ input \in ZeroOrMaxGrids) \/ InitTables) /\ [][NextTables]_vars

----------------------------------------------------------------------------
\* Two calls of seek_end on the same input whose steps are interleaved. The
\* locals of a call (its arguments, its position, map, to_visit, target,
\* best and what it returns) belong to the call; the input text is borrowed
\* by both; the tables that Movement::new allocates live on the one heap of
\* the process, the variable cache, where both calls allocate theirs. The
\* running call is held in the variables, the suspended one in `other`.

Locals ==
    [min_distance |-> min_distance, max_distance |-> max_distance, pc |-> pc,
     map |-> map, to_visit |-> to_visit, target |-> target, best |-> best,
     node |-> node, out |-> out, result |-> result]

Entry(min_d, max_d) ==
    [min_distance |-> min_d, max_distance |-> max_d, pc |-> "parse",
     map |-> <<>>, to_visit |-> EmptyBag, target |-> None, best |-> None,
     node |-> None, out |-> <<>>, result |-> Running]

\* The arguments of the interleaved calls: the running call has
\* (1, MaxRun - 1) and the other one (1, MaxRun).

TwoQueryRuns == {<<1, MaxRun>>}

InitTwo ==
    /\ input \in ZeroOrMaxGrids
    /\ min_distance = 1
    /\ max_distance = MaxRun - 1
    /\ pc = "parse"
    /\ map = <<>>
    /\ to_visit = EmptyBag
    /\ cache = <<>>
    /\ target = None
    /\ best = None
    /\ node = None
    /\ out = <<>>
    /\ result = Running
    /\ calls = 2
    /\ prev = NoPrev
    /\ \E r \in TwoQueryRuns : other = Some(Entry(r[1], r[2]))

\* The scheduler suspends the running call and resumes the other one.
Switch ==
    /\ other # None
    /\ other' = Some(Locals)
    /\ min_distance' = Unwrap(other).min_distance
    /\ max_distance' = Unwrap(other).max_distance
    /\ pc' = Unwrap(other).pc
    /\ map' = Unwrap(other).map
    /\ to_visit' = Unwrap(other).to_visit
    /\ target' = Unwrap(other).target
    /\ best' = Unwrap(other).best
    /\ node' = Unwrap(other).node
    /\ out' = Unwrap(other).out
    /\ result' = Unwrap(other).result
    /\ UNCHANGED <<input, cache, calls, prev>>

NextTwo ==
    \/ Parse
    \/ SeedEast
    \/ SeedSouth
    \/ Target
    \/ Expand
    \/ Return
    \/ Switch

SpecTwo == InitTwo /\ [][NextTwo]_vars

----------------------------------------------------------------------------
\* weight as a function of the Movement: one call on a Movement at any cell
\* of a rectangular grid whose cells cost 0 or MaxDigit, with any heading and
\* run (run 0 only for the two seeds), for min_distance <= max_distance.

WeightGrids ==
    {g \in Grids : \A i \in 1..Len(g) : \A j \in 1..Len(g[i]) :
                      g[i][j] \in {"0", DigitChars[MaxDigit + 1]}}

InitWeight ==
    /\ input \in WeightGrids
    /\ map = ParseInput(input)
    /\ min_distance \in 0..MaxRun
    /\ max_distance \in min_distance..MaxRun
    /\ pc = "weight"
    /\ to_visit = EmptyBag
    /\ cache = <<NewCache(map)>>
    /\ target = Some(BottomRight(map))
    /\ best = None
    /\ out = <<>>
    /\ result = Running
    /\ calls = 1
    /\ prev = NoPrev
    /\ other = None
    /\ \E loc \in Cells(map), d \in Directions, r \in 0..MaxRun, g \in {0, MaxDigit} :
         /\ r <= (IF max_distance = 0 THEN 1 ELSE max_distance)
         /\ r = 0 => (loc = <<0, 0>> /\ d \in {"East", "South"})
         /\ g = (IF r = 0 THEN 0 ELSE MaxDigit)
         /\ node = Some([MovementNew(loc, d, min_distance, max_distance, 1)
                            EXCEPT !.current_distance = r, !.total_cost = g])

\* Lines 162-165; the weight is kept in result.
WeightCall ==
    /\ pc = "weight"
    /\ pc' = "weighed"
    /\ result' = Ok(Some(Weight(Unwrap(node))))
    /\ UNCHANGED <<other, input, min_distance, max_distance, map, to_visit, cache,
                   target, best, node, out, calls, prev>>

NextWeight == WeightCall

SpecWeights == InitWeight /\ [][NextWeight]_vars

----------------------------------------------------------------------------
\* One call of seek_end run to its end: a sequential program, whose next
\* step is always taken (lines 237-278).  The inputs are the rectangular
\* grids whose cells cost 0 or MaxDigit, the grids of zero-cost cells
\* included, and the queries with min_distance <= max_distance.

InitFair ==
    /\ Init
    /\ input \in WeightGrids
    /\ min_distance <= max_distance

NextSearch ==
    \/ Parse
    \/ SeedEast
    \/ SeedSouth
    \/ Target
    \/ Expand
    \/ Return

SpecFair == InitFair /\ [][NextSearch]_vars /\ WF_vars(NextSearch)

----------------------------------------------------------------------------
\* The loop of lines 260-277 with a heap whose pop may give any queued
\* Movement: the expansion, the test of line 263 and the pushes are those of
\* Expand, the order of impl Ord (lines 123-132) is left out.

ExpandAny ==
    /\ pc = "loop"
    /\ to_visit # EmptyBag
    /\ \E n \in BagToSet(to_visit) :
         \E paths \in {AvailablePaths(n, cache)} :
            /\ node' = Some(n)
            /\ IF paths.panic
               THEN /\ pc' = "done"
                    /\ result' = Panic("index out of bounds")
                    /\ to_visit' = to_visit (-) SetToBag({n})
                    /\ out' = <<>>
                    /\ UNCHANGED <<cache, best>>
               ELSE /\ out' = paths.nodes
                    /\ cache' = paths.tables
                    /\ best' = RecordAll(best, paths.nodes)
                    /\ to_visit' = PushAll(to_visit (-) SetToBag({n}), paths.nodes)
                    /\ UNCHANGED <<pc, result>>
    /\ UNCHANGED <<other, input, min_distance, max_distance, map, target, calls, prev>>

NextAnyPop ==
    \/ Parse
    \/ SeedEast
    \/ SeedSouth
    \/ Target
    \/ ExpandAny
    \/ Return

SpecAnyPop == InitFair /\ [][NextAnyPop]_vars

\* seek_end run alone on the parsed grid, as one function: lines 240-278
\* with the heap's choice among equal weights made by CHOOSE.
RECURSIVE AloneLoop(_, _, _)
AloneLoop(heap, tables, b) ==
    IF heap = EmptyBag THEN b
    ELSE LET n == CHOOSE x \in BagToSet(heap) :
                     \A o \in BagToSet(heap) : Weight(x) <= Weight(o)
             paths == AvailablePaths(n, tables)
         IN  AloneLoop(PushAll(heap (-) SetToBag({n}), paths.nodes),
                       paths.tables, RecordAll(b, paths.nodes))

SeekEndAlone(min_d, max_d) ==
    LET heap == SetToBag({MovementNew(<<0, 0>>, "East", min_d, max_d, 1)})
                (+) SetToBag({MovementNew(<<0, 0>>, "South", min_d, max_d, 2)})
        b == AloneLoop(heap, <<NewCache(map), NewCache(map)>>, None)
    IN  Ok(IF b = None THEN None ELSE Some(Unwrap(b).total_cost))

----------------------------------------------------------------------------
\* Vocabulary of the properties: the shape of an input and the routes the
\* puzzle allows, stated without the search.

IsDecimalDigit(ch) == ch \in {"0", "1", "2", "3", "4", "5", "6", "7", "8", "9"}

AllDigits(text) ==
    \A i \in 1..Len(text) : \A j \in 1..Len(text[i]) : IsDecimalDigit(text[i][j])

HasNonDigit(text) == ~AllDigits(text)

\* No cell at all: no line, or only empty lines.
ZeroDimension(text) == \A i \in 1..Len(text) : Len(text[i]) = 0

IsRagged(text) == \E i, j \in 1..Len(text) : Len(text[i]) # Len(text[j])

\* A non-empty rectangular grid of digits.
WellFormed(text) == AllDigits(text) /\ ~ZeroDimension(text) /\ ~IsRagged(text)

CellCount(text) == IF Len(text) = 0 THEN 0 ELSE Len(text) * Len(text[1])

Finished == pc = "done"

Opposite(d) ==
    CASE d = "North" -> "South"
      [] d = "East"  -> "West"
      [] d = "South" -> "North"
      [] d = "West"  -> "East"

\* The cell a step in heading d arrives from.
CameFrom(loc, d) ==
    CASE d = "North" -> <<loc[1] + 1, loc[2]>>
      [] d = "East"  -> <<loc[1], loc[2] - 1>>
      [] d = "South" -> <<loc[1] - 1, loc[2]>>
      [] d = "West"  -> <<loc[1], loc[2] + 1>>

\* The least element of the union of a set of Options, None if there is none.
LeastOf(options) ==
    LET vals == UNION options IN
    IF vals = {} THEN None ELSE Some(CHOOSE v \in vals : \A w \in vals : v <= w)

\* A route state: the cell reached, the heading of the last step and the
\* number k of consecutive steps taken in that heading, 1 <= k <= max_run.
RouteStates(m, max_run) == Cells(m) \X Directions \X (1..max_run)

\* The route states a legal route can be in one step before s: the same
\* heading with one step less, or, when s starts a run, another heading that
\* is not the opposite one, held for at least min_run steps.
RouteBefore(m, min_run, max_run, s) ==
    LET p == CameFrom(s[1], s[2]) IN
    IF p \notin Cells(m) THEN {}
    ELSE IF s[3] > 1 THEN {<<p, s[2], s[3] - 1>>}
    ELSE {<<p, d, k>> : d \in Directions \ {s[2], Opposite(s[2])},
                       k \in {j \in 1..max_run : j >= min_run}}

\* One round of relaxation of the least cost of reaching each route state.
RouteRelax(m, min_run, max_run, dist) ==
    [s \in RouteStates(m, max_run) |->
        LeastOf({dist[s]}
                \cup {IF s[3] = 1 /\ CameFrom(s[1], s[2]) = <<0, 0>>
                      THEN Some(Get(m, s[1])) ELSE None}
                \cup {IF dist[q] = None THEN None
                      ELSE Some(Unwrap(dist[q]) + Get(m, s[1])) :
                      q \in RouteBefore(m, min_run, max_run, s)})]

RECURSIVE RouteFix(_, _, _, _)
RouteFix(m, min_run, max_run, dist) ==
    LET next == RouteRelax(m, min_run, max_run, dist) IN
    IF next = dist THEN dist ELSE RouteFix(m, min_run, max_run, next)

\* The least cost of a legal route from the top-left to the bottom-right cell
\* of a grid with more than one cell, None when there is no legal route.
LegalOptimum(m, min_run, max_run) ==
    LET dist == RouteFix(m, min_run, max_run,
                         [s \in RouteStates(m, max_run) |-> None])
    IN  LeastOf({dist[s] : s \in {t \in RouteStates(m, max_run) :
                                    t[1] = BottomRight(m) /\ t[3] >= min_run}})

----------------------------------------------------------------------------
\* C1: on every rectangular grid with more than one cell and every
\* 0 <= min_run <= max_run, seek_end returns the least cost of a legal route
\* (runs of at most max_run steps, a turn or the stop only after at least
\* min_run steps, no reversal), and None exactly when there is no such route.
C1_ReturnsLegalOptimum ==
    (/\ Finished
     /\ WellFormed(input)
     /\ CellCount(input) > 1
     /\ min_distance <= max_distance)
    => result = Ok(LegalOptimum(map, min_distance, max_distance))

\* C1 where a move is possible at all: the same for max_run >= 1.
C1_OptimumFromRunOne ==
    (/\ Finished
     /\ WellFormed(input)
     /\ CellCount(input) > 1
     /\ min_distance <= max_distance
     /\ max_distance >= 1)
    => result = Ok(LegalOptimum(map, min_distance, max_distance))

\* C2: whichever of the least-weight Movements each pop takes, two calls of
\* seek_end with the same input, min_distance and max_distance return the
\* same result.
C2_SameResultWhateverTheTies ==
    (Finished /\ calls = 2 /\ prev.max_distance = max_distance)
    => result = prev.result

C2_Witness ==
    /\ Finished
    /\ calls = 2
    /\ prev.max_distance = max_distance
    /\ WellFormed(input)
    /\ CellCount(input) = 4
    /\ node # None
    /\ result.kind = "Ok"
    /\ result.val # None
    /\ Unwrap(best).best = 1

\* C3: with the same grid and min_distance, a larger max_distance (both at
\* least min_distance) never returns a larger cost, None counting as
\* infinity.
C3_MoreRunNeverCostsMore ==
    (/\ Finished
     /\ calls = 2
     /\ min_distance <= prev.max_distance
     /\ prev.max_distance <= max_distance
     /\ result.kind = "Ok"
     /\ prev.result.kind = "Ok")
    => \/ prev.result.val = None
       \/ /\ result.val # None
          /\ Unwrap(result.val) <= Unwrap(prev.result.val)

C3_Witness ==
    /\ Finished
    /\ calls = 2
    /\ min_distance <= prev.max_distance
    /\ prev.max_distance < max_distance
    /\ prev.result = Ok(None)
    /\ result.kind = "Ok"
    /\ result.val # None

\* C4: with min_run > max_run the query is rejected with an error before the
\* frontier is seeded or a state expanded.
C4_InvalidParameterRejected ==
    (WellFormed(input) /\ min_distance > max_distance)
    => /\ to_visit = EmptyBag
       /\ node = None
       /\ Finished => result.kind = "Err"

\* C5: on a 1x1 grid with 1 <= min_run <= max_run the search ends, after
\* expanding nothing but the seeds, with the no-path result Ok(None).
C5_OneCellNoPath ==
    (/\ WellFormed(input)
     /\ CellCount(input) = 1
     /\ 1 <= min_distance
     /\ min_distance <= max_distance)
    => /\ out = <<>>
       /\ \A n \in BagToSet(to_visit) : n.current_distance = 0
       /\ BagCardinality(to_visit) <= 2
       /\ Finished => result = Ok(None)

C5_Witness ==
    /\ WellFormed(input)
    /\ CellCount(input) = 1
    /\ 1 <= min_distance
    /\ min_distance <= max_distance
    /\ Finished
    /\ node # None
    /\ result = Ok(None)

\* C6: a ragged grid is rejected with an error before the search starts: no
\* state is pushed or expanded.
C6_RaggedRejected ==
    IsRagged(input)
    => /\ to_visit = EmptyBag
       /\ node = None
       /\ Finished => result.kind = "Err"

\* C7: when some character of the input is no decimal digit, seek_end
\* returns an error without a search step: no grid is kept, no table made,
\* nothing pushed.
C7_NonDigitRejected ==
    HasNonDigit(input)
    => /\ pc \in {"parse", "done"}
       /\ map = <<>>
       /\ cache = <<>>
       /\ to_visit = EmptyBag
       /\ node = None
       /\ Finished => result = Err("Failed to parse input")

C7_Witness ==
    /\ HasNonDigit(input)
    /\ Len(input) = 2
    /\ Len(input[1]) = 2
    /\ IsDecimalDigit(input[1][1])
    /\ Finished
    /\ result = Err("Failed to parse input")

\* C8: a grid with no row or no column is rejected with an error before the
\* first seed is pushed, and before bottom_right is evaluated (which the
\* second push and the target computation do).
C8_EmptyGridRejected ==
    ZeroDimension(input)
    => /\ pc \in {"parse", "seed_east", "done"}
       /\ to_visit = EmptyBag
       /\ cache = <<>>
       /\ node = None
       /\ Finished => result = Err("Expected to find (0,0)")

C8_Witness ==
    /\ ZeroDimension(input)
    /\ Len(input) = 1
    /\ Finished
    /\ result = Err("Expected to find (0,0)")

\* C9: on a non-empty rectangular digit grid with min_run <= max_run nothing
\* panics: every location of a Movement is inside the grid (so is every
\* index into the map and the tables), no coordinate is negative, and a pop
\* happens on a non-empty heap only.
C9_NoPanicOnWellFormed ==
    (WellFormed(input) /\ min_distance <= max_distance)
    => /\ result.kind # "Panic"
       /\ \A n \in BagToSet(to_visit) \cup node \cup best : InBounds(map, n.location)
       /\ \A i \in 1..Len(out) : InBounds(map, out[i].location)
       /\ node # None => pc \in {"loop", "done"}

C9_Witness ==
    /\ WellFormed(input)
    /\ CellCount(input) = 4
    /\ min_distance <= max_distance
    /\ Finished
    /\ result.kind = "Ok"
    /\ node # None
    /\ Unwrap(node).location = <<0, 0>>
    /\ Unwrap(node).current_distance > 0

\* C10: every Movement available_paths produces costs at least what its
\* parent costs, and the same only when the cell entered costs 0.
C10_CostNeverDecreases ==
    \A i \in 1..Len(out) :
        /\ out[i].total_cost >= Unwrap(node).total_cost
        /\ out[i].total_cost = Unwrap(node).total_cost
              => Get(map, out[i].location) = 0

\* A parent that has paid something already and a successor, reached by going
\* straight on into a cell of cost 0, that costs the same.
C10_Witness ==
    /\ node # None
    /\ Unwrap(node).total_cost > 0
    /\ \E i \in 1..Len(out) :
          /\ out[i].total_cost = Unwrap(node).total_cost
          /\ out[i].current_distance = 2

\* C12: a Movement popped from the heap that is at the target with a run of
\* at least min_run is recorded in best, a seed included: on a 1x1 grid with
\* min_run = 0 the seed is terminal and the call returns cost 0.
C12_PoppedTerminalRecorded ==
    WellFormed(input)
    => /\ \A n \in node :
            (Some(n.location) = target /\ n.current_distance >= min_distance)
            => /\ best # None
               /\ Unwrap(best).total_cost <= n.total_cost
       /\ (Finished /\ CellCount(input) = 1 /\ min_distance = 0)
            => result = Ok(Some(0))

\* C13: best is absent or a Movement at the target (the bottom-right cell)
\* with a run of at least min_run; a Movement at the target with a shorter
\* run is not recorded, and is pushed all the same.
C13_BestIsTerminal ==
    /\ \A b \in best :
          /\ b.location = BottomRight(map)
          /\ b.current_distance >= min_distance
    /\ \A i \in 1..Len(out) :
          /\ BagIn(out[i], to_visit)
          /\ (out[i].location = BottomRight(map)
               /\ out[i].current_distance < min_distance)
             => best # Some(out[i])

C13_Witness ==
    /\ WellFormed(input)
    /\ min_distance <= max_distance
    /\ best = None
    /\ \E i \in 1..Len(out) :
          /\ out[i].location = BottomRight(map)
          /\ out[i].current_distance < min_distance
          /\ BagIn(out[i], to_visit)

----------------------------------------------------------------------------
\* What one iteration of the loop is said to produce, in the words of the
\* transition rules: the popped Movement is node', what it produced is out',
\* and the tables it met are those of cache before the step.

LoopStep == pc = "loop" /\ pc' = "loop" /\ node' # None /\ to_visit' # to_visit

ExpandStep == LoopStep \/ (pc = "available_paths" /\ pc' = "tested")

\* The two headings a quarter turn away from hd.
TurnHeadings(hd) == Directions \ {hd, Opposite(hd)}

\* The cell entered by one step from loc with heading hd, if the grid has it.
Entered(loc, hd) == {c \in Cells(map) : CameFrom(c, hd) = loc}

Successor(n, c, hd, run) ==
    [n EXCEPT !.location = c, !.direction = hd, !.current_distance = run,
              !.total_cost = n.total_cost + Get(map, c)]

CacheKey(s) == <<s.location[1], s.location[2], Idx(s.direction)>>

\* s is dominated in tables: its own table holds, under (location, heading),
\* a cost that is not higher than its own.
Dominated(s, tables) ==
    LET entry == tables[s.best][CacheKey(s)]
    IN  entry # None /\ Unwrap(entry) <= s.total_cost

TurnCandidates(n) ==
    {Successor(n, c, hd, 1) : <<c, hd>> \in
        {p \in Cells(map) \X TurnHeadings(n.direction) : p[1] \in Entered(n.location, p[2])}}

ExpectedTurns(n, tables, allowed) ==
    IF allowed THEN {s \in TurnCandidates(n) : ~Dominated(s, tables)} ELSE {}

TurnsIn(nodes, n) ==
    {nodes[i] : i \in {j \in 1..Len(nodes) : nodes[j].direction # n.direction}}

StraightIn(nodes, n) ==
    {nodes[i] : i \in {j \in 1..Len(nodes) : nodes[j].direction = n.direction}}

\* C14 as stated: a Movement with run r produces its turn successors exactly
\* when r = 0 (a seed, whatever min_run is) or r >= min_run: one for each of
\* the headings left and right whose step stays in the grid (and is not
\* dominated), with run 1 and the cost of the entered cell added.
C14_TurnRuleSeedsToo ==
    [][(ExpandStep /\ WellFormed(input) /\ min_distance <= max_distance) =>
        LET n == Unwrap(node')
        IN  TurnsIn(out', n) =
                ExpectedTurns(n, cache, n.current_distance = 0
                                        \/ n.current_distance >= min_distance)]_vars

\* C14 amended: a Movement with run r produces its turn successors exactly
\* when r >= min_run, so a seed (r = 0) turns only when min_run = 0: one for
\* each of the headings left and right whose step stays in the grid and is
\* not dominated, with run 1 and the cost of the entered cell added; with
\* r < min_run there is no turn successor.
C14_TurnRule ==
    [][ExpandStep =>
        LET n == Unwrap(node')
        IN  TurnsIn(out', n) =
                ExpectedTurns(n, cache, n.current_distance >= min_distance)]_vars

\* A seed was expanded with min_run >= 1, a turn would have stayed in the
\* grid, and the seed produced its straight successor only.
C14_Witness ==
    /\ WellFormed(input)
    /\ 1 <= min_distance
    /\ min_distance <= max_distance
    /\ pc = "loop"
    /\ \E n \in node :
          /\ n.current_distance = 0
          /\ TurnCandidates(n) # {}
          /\ TurnsIn(out, n) = {}
          /\ StraightIn(out, n) # {}

\* C15: a Movement with run r produces a straight successor exactly when
\* r < max_run and the step in its heading stays in the grid: the entered
\* cell, the same heading, run r + 1 and the cost of the entered cell added;
\* with r = max_run there is none.
C15_ContinueRule ==
    result.kind # "Panic"
    => \A n \in node :
         /\ StraightIn(out, n) =
              IF n.current_distance < max_distance
              THEN {Successor(n, c, n.direction, n.current_distance + 1) :
                        c \in Entered(n.location, n.direction)}
              ELSE {}
         /\ Cardinality({j \in 1..Len(out) : out[j].direction = n.direction}) <= 1

\* A Movement with a full run was expanded where the cell ahead exists, and
\* it did not go straight.
C15_Witness ==
    /\ WellFormed(input)
    /\ min_distance <= max_distance
    /\ \E n \in node :
          /\ n.current_distance = max_distance
          /\ n.current_distance >= 1
          /\ Entered(n.location, n.direction) # {}
          /\ StraightIn(out, n) = {}

\* C16: every successor keeps its parent's heading or turns a quarter to the
\* left or to the right, never about; and its location is one cell away
\* from its parent's.
C16_QuarterTurnsOneStep ==
    \A n \in node : \A i \in 1..Len(out) :
        /\ out[i].direction \in {n.direction, Left(n.direction), Right(n.direction)}
        /\ out[i].direction # Opposite(n.direction)
        /\ AbsDiff(out[i].location[1], n.location[1])
             + AbsDiff(out[i].location[2], n.location[2]) = 1

\* A Movement that is no seed was expanded and produced a turn successor.
C16_Witness ==
    /\ WellFormed(input)
    /\ \E n \in node :
          /\ n.current_distance >= 1
          /\ n.location # <<0, 0>>
          /\ \E i \in 1..Len(out) : out[i].direction # n.direction

\* The Movements of a state: those in the heap, the one popped last, its
\* successors and best.
Created == BagToSet(to_visit) \cup node \cup best \cup {out[i] : i \in 1..Len(out)}

\* C17: for every query with 0 <= min_run <= max_run, max_run = 0 included,
\* every Movement created has a run in 0..max_run and a location in the grid.
C17_RunWithinMax ==
    (WellFormed(input) /\ min_distance <= max_distance)
    => \A n \in Created :
          /\ n.current_distance \in 0..max_distance
          /\ n.location \in Cells(map)

\* The same for max_run >= 1, where a turn successor's run of 1 is within
\* max_run.
C17_RunWithinMaxFromOne ==
    (WellFormed(input) /\ min_distance <= max_distance /\ max_distance >= 1)
    => \A n \in Created :
          /\ n.current_distance \in 0..max_distance
          /\ n.location \in Cells(map)

\* A seed: at the origin, run 0, cost 0, heading East or South.
IsSeed(n) ==
    /\ n.location = <<0, 0>>
    /\ n.current_distance = 0
    /\ n.total_cost = 0
    /\ n.direction \in {"East", "South"}

\* C18: the heap is seeded with exactly two Movements, both at the origin
\* with run 0 and cost 0, one heading East and one heading South; every
\* other Movement ever created has a run of at least 1.
C18_TwoSeeds ==
    /\ pc = "target"
        => /\ BagCardinality(to_visit) = 2
           /\ \E e, s \in BagToSet(to_visit) :
                 /\ IsSeed(e) /\ e.direction = "East"
                 /\ IsSeed(s) /\ s.direction = "South"
    /\ \A n \in Created : n.current_distance = 0 => IsSeed(n)
    /\ \A n \in BagToSet(to_visit) :
          n.current_distance = 0 => CopiesIn(n, to_visit) = 1
    /\ Cardinality({n \in BagToSet(to_visit) : n.current_distance = 0}) <= 2
    /\ \A i \in 1..Len(out) : out[i].current_distance >= 1

\* One seed has been expanded and has produced successors while the other
\* is still in the heap.
C18_Witness ==
    /\ WellFormed(input)
    /\ pc = "loop"
    /\ \E n \in node : IsSeed(n)
    /\ \E s \in BagToSet(to_visit) : IsSeed(s)
    /\ Len(out) >= 1

\* C19 as stated: every successor of an expansion, straight or turned, is
\* checked against the best-cost table under (location, heading): it is
\* pushed only if the table had no entry or a higher one, and the entry is
\* then its cost.
C19_EverySuccessorChecked ==
    [][(ExpandStep /\ WellFormed(input) /\ min_distance <= max_distance) =>
        LET n == Unwrap(node')
        IN  \A i \in 1..Len(out') :
               /\ ~Dominated(out'[i], cache)
               /\ cache'[n.best][CacheKey(out'[i])] = Some(out'[i].total_cost)]_vars

\* C19 amended: every turn successor is checked against the best-cost table
\* under (location, heading): it is pushed only if the table had no entry or
\* a higher one, the entry is then its cost, and a dominated turn candidate
\* is discarded. The straight successor is pushed without the table being
\* read or written: only the keys of pushed turn successors change.
C19_TurnSuccessorsChecked ==
    [][ExpandStep =>
        LET n == Unwrap(node')
        IN  /\ \A s \in TurnsIn(out', n) :
                  /\ ~Dominated(s, cache)
                  /\ cache'[n.best][CacheKey(s)] = Some(s.total_cost)
            /\ \A s \in TurnCandidates(n) :
                  Dominated(s, cache) => s \notin TurnsIn(out', n)
            /\ \A k \in DOMAIN cache[n.best] :
                  cache'[n.best][k] # cache[n.best][k]
                  => \E s \in TurnsIn(out', n) : CacheKey(s) = k
            /\ \A t \in 1..Len(cache) : t # n.best => cache'[t] = cache[t]
            /\ LoopStep => \A i \in 1..Len(out') : BagIn(out'[i], to_visit')]_vars

\* A straight successor was produced although its table holds, under its
\* (location, heading), a cost not higher than its own; the entry is as it
\* was before the call.
C19_Witness ==
    /\ WellFormed(input)
    /\ pc = "tested"
    /\ \E n \in node : \E s \in StraightIn(out, n) :
          /\ Dominated(s, cache)
          /\ cache[2][CacheKey(s)] = cache[1][CacheKey(s)]

\* In a call of seek_end a straight successor was pushed and its table has
\* no entry under its (location, heading).
C19_WitnessInSearch ==
    /\ WellFormed(input)
    /\ min_distance <= max_distance
    /\ pc = "loop"
    /\ \E n \in node : \E s \in StraightIn(out, n) :
          /\ BagIn(s, to_visit)
          /\ cache[s.best][CacheKey(s)] = None

\* C20: within one call an entry of a best-cost table, once written, is
\* never removed and never raised; it is overwritten only with a strictly
\* lower cost; a turn candidate whose cost is equal to or higher than the
\* entry is not pushed and leaves the table as it was.
C20_EntriesOnlyDecrease ==
    [][calls' = calls =>
        /\ Len(cache') >= Len(cache)
        /\ \A t \in 1..Len(cache) : \A k \in DOMAIN cache[t] :
              cache[t][k] # None
              => /\ cache'[t][k] # None
                 /\ Unwrap(cache'[t][k]) <= Unwrap(cache[t][k])
        /\ ExpandStep =>
              LET n == Unwrap(node')
              IN  \A s \in TurnCandidates(n) :
                     Dominated(s, cache)
                     => /\ \A i \in 1..Len(out') : out'[i] # s
                        /\ cache'[n.best][CacheKey(s)] = cache[n.best][CacheKey(s)]]_vars

\* A turn successor was produced with a cost strictly lower than the entry
\* its table held before the call, and the entry is now its cost.
C20_Witness ==
    /\ pc = "tested"
    /\ \E n \in node : \E s \in TurnsIn(out, n) :
          /\ cache[1][CacheKey(s)] # None
          /\ s.total_cost < Unwrap(cache[1][CacheKey(s)])
          /\ cache[2][CacheKey(s)] = Some(s.total_cost)

\* In a call of seek_end a Movement that may turn was expanded, and one of
\* its turn candidates met an entry not higher than its cost and was not
\* produced.
C20_WitnessInSearch ==
    /\ WellFormed(input)
    /\ min_distance <= max_distance
    /\ pc = "loop"
    /\ \E n \in node :
          /\ n.current_distance >= min_distance
          /\ \E s \in TurnCandidates(n) :
                /\ Dominated(s, cache)
                /\ s \notin TurnsIn(out, n)

\* The tables a call refers to: those of the Movements it holds.
TablesOf(l) ==
    {m.best : m \in BagToSet(l.to_visit) \cup l.node \cup l.best
                     \cup {l.out[i] : i \in 1..Len(l.out)}}

\* C11: two calls on the same grid whose steps are interleaved in any order
\* each return what they return when run alone; a step of one call leaves
\* the other call's locals and tables as they were, the two calls refer to
\* no common table, and no step changes the input.
C11_QueriesIsolated ==
    /\ [][/\ input' = input
          /\ \A o \in other :
               /\ (other' = other)
                  => \A t \in TablesOf(o) : cache'[t] = cache[t]
               /\ (other' # other) => (other' = Some(Locals) /\ cache' = cache)]_vars
    /\ [](\A o \in other :
            /\ TablesOf(Locals) \cap TablesOf(o) = {}
            /\ (pc = "done" /\ o.pc = "done")
               => /\ result = SeekEndAlone(min_distance, max_distance)
                  /\ o.result = SeekEndAlone(o.min_distance, o.max_distance))

\* Both calls are in their loops, each has expanded a Movement, each still
\* has Movements to expand, and each has written an entry of a table.
C11_Witness ==
    /\ pc = "loop"
    /\ node # None
    /\ to_visit # EmptyBag
    /\ \E t \in TablesOf(Locals) : \E k \in DOMAIN cache[t] : cache[t][k] # None
    /\ \E o \in other :
          /\ o.pc = "loop"
          /\ o.node # None
          /\ o.to_visit # EmptyBag
          /\ \E t \in TablesOf(o) : \E k \in DOMAIN cache[t] : cache[t][k] # None

\* Both calls have returned a cost after interleaved steps.
C11_WitnessDone ==
    /\ pc = "done"
    /\ result.kind = "Ok"
    /\ result.val # None
    /\ \E o \in other :
          /\ o.pc = "done"
          /\ o.result.val # None
          /\ o.max_distance # max_distance

\* C21 as stated: within one call there is one best-cost table, which every
\* Movement, descended from the East seed or from the South seed, refers to.
C21_OneTable ==
    WellFormed(input)
    => /\ Len(cache) <= 1
       /\ \A m1, m2 \in Created : m1.best = m2.best

\* C21 amended: within one call there are two best-cost tables, one per
\* seed: the East seed has the first, the South seed the second, every
\* successor has the table of its parent, and an expansion leaves the table
\* of the other seed as it was.
C21_OneTablePerSeed ==
    /\ [](other = None
           => /\ Len(cache) <= 2
              /\ \A m \in Created :
                    /\ m.best \in 1..Len(cache)
                    /\ IsSeed(m) => m.best = (IF m.direction = "East" THEN 1 ELSE 2)
              /\ \A n \in node : \A i \in 1..Len(out) : out[i].best = n.best)
    /\ [][(other = None /\ LoopStep)
           => \A t \in 1..Len(cache) :
                 t # Unwrap(node').best => cache'[t] = cache[t]]_vars

\* A turn successor was produced although the table of the other seed
\* holds, under its (location, heading), a cost not higher than its own.
C21_Witness ==
    /\ WellFormed(input)
    /\ pc = "loop"
    /\ \E n \in node : \E s \in TurnsIn(out, n) : \E t \in 1..Len(cache) :
          /\ t # s.best
          /\ cache[t][CacheKey(s)] # None
          /\ Unwrap(cache[t][CacheKey(s)]) <= s.total_cost
          /\ BagIn(s, to_visit)

\* The cost of an Option<Movement>, and the costs of the Movements of a
\* sequence that are at the bottom-right cell with a run of at least min_run.
CostOf(b) == {m.total_cost : m \in b}

TerminalCosts(nodes) ==
    {nodes[i].total_cost : i \in {j \in 1..Len(nodes) :
        /\ nodes[j].location = BottomRight(map)
        /\ nodes[j].current_distance >= min_distance}}

\* C22: the loop returns only with an empty heap, and what it returns is the
\* cost of best; each iteration leaves in best the least of its cost and of
\* the costs of the terminal Movements just produced, so best never gets
\* dearer, the loop goes on after the first one is recorded, and the value
\* returned is the least cost of all terminal Movements produced.
C22_FullDrain ==
    [][/\ (pc = "loop" /\ pc' = "done" /\ result'.kind = "Ok")
           => /\ to_visit = EmptyBag
              /\ result'.val = CostOf(best)
       /\ LoopStep
           => CostOf(best') = LeastOf({CostOf(best), LeastOf({TerminalCosts(out')})})
       /\ (calls' = calls /\ best # None)
           => /\ best' # None
              /\ Unwrap(best').total_cost <= Unwrap(best).total_cost]_vars

\* After a terminal Movement was recorded the loop expanded another Movement,
\* which produced successors, none of them terminal, and Movements are left.
C22_Witness ==
    /\ WellFormed(input)
    /\ min_distance <= max_distance
    /\ pc = "loop"
    /\ best # None
    /\ node # None
    /\ Len(out) >= 1
    /\ TerminalCosts(out) = {}
    /\ to_visit # EmptyBag

----------------------------------------------------------------------------
\* The least cost still to pay from a state (cell, heading, run) to a
\* terminal state, over the legal completions: a straight step while the
\* run is below max_run, a quarter turn from a seed or after at least
\* min_run steps; 0 where the state is terminal itself, None where no
\* completion exists.

GoStates(m, max_run) ==
    Cells(m) \X Directions \X (0..(IF max_run = 0 THEN 1 ELSE max_run))

GoTerminal(m, min_run, s) == s[1] = BottomRight(m) /\ s[3] >= min_run

GoAfter(m, min_run, max_run, s) ==
    {<<c, s[2], s[3] + 1>> : c \in {x \in Cells(m) :
        s[3] < max_run /\ CameFrom(x, s[2]) = s[1]}}
    \cup {<<q[1], q[2], 1>> : q \in {x \in Cells(m) \X (Directions \ {s[2], Opposite(s[2])}) :
        (s[3] = 0 \/ s[3] >= min_run) /\ CameFrom(x[1], x[2]) = s[1]}}

GoRelax(m, min_run, max_run, dist) ==
    [s \in GoStates(m, max_run) |->
        IF GoTerminal(m, min_run, s) THEN Some(0)
        ELSE LeastOf({dist[s]}
                     \cup {IF dist[q] = None THEN None
                           ELSE Some(Get(m, q[1]) + Unwrap(dist[q])) :
                           q \in GoAfter(m, min_run, max_run, s) \cap GoStates(m, max_run)})]

RECURSIVE GoFix(_, _, _, _)
GoFix(m, min_run, max_run, dist) ==
    LET next == GoRelax(m, min_run, max_run, dist) IN
    IF next = dist THEN dist ELSE GoFix(m, min_run, max_run, next)

ToGo(m, min_run, max_run) ==
    GoFix(m, min_run, max_run, [s \in GoStates(m, max_run) |-> None])

StateOf(n) == <<n.location, n.direction, n.current_distance>>

\* The heuristic part of a Movement's weight.
Heuristic(n) == Weight(n) - n.total_cost

Weighed == pc = "weighed" /\ \A n \in node : result.val = Some(Weight(n))

CostsAtLeast(m, low) ==
    \A i \in 1..Len(m) : \A j \in 1..Len(m[i]) : m[i][j] >= low

\* C23: on a rectangular grid whose cells all cost at least 1, for every
\* Movement the Manhattan distance from its location to the
\* bottom-right cell is at most the least cost of a legal completion from
\* its state to a terminal state, and it is 0 at the bottom-right cell.
C23_AdmissibleFromOne ==
    (WellFormed(input) /\ Weighed /\ CostsAtLeast(map, 1))
    => LET togo == ToGo(map, min_distance, max_distance)
       IN  \A n \in Created :
              /\ n.location = BottomRight(map) => Heuristic(n) = 0
              /\ \A v \in togo[StateOf(n)] : Heuristic(n) <= v

\* On such a grid a Movement away from the bottom-right cell has a legal
\* completion that costs more than its Manhattan distance.
C23_Witness ==
    /\ WellFormed(input)
    /\ Weighed
    /\ CostsAtLeast(map, 1)
    /\ min_distance <= max_distance
    /\ \E n \in Created :
          /\ Heuristic(n) >= 1
          /\ \E v \in ToGo(map, min_distance, max_distance)[StateOf(n)] :
                Heuristic(n) < v

C23_WitnessTight ==
    /\ WellFormed(input)
    /\ Weighed
    /\ CostsAtLeast(map, 1)
    /\ \E n \in Created :
          /\ Heuristic(n) >= 2
          /\ ToGo(map, min_distance, max_distance)[StateOf(n)] = Some(Heuristic(n))

HasCost(m, c) == \E i \in 1..Len(m) : \E j \in 1..Len(m[i]) : m[i][j] = c

\* The grid of the same shape where every cell costs 1: the cost of a
\* completion on it is its number of steps.
UnitCosts(m) == [i \in 1..Len(m) |-> [j \in 1..Len(m[i]) |-> 1]]

\* C24 as stated: on a grid with cells of cost 0 the Manhattan distance of
\* every Movement created is still at most the least cost of a legal
\* completion from its state to a terminal state (queries with
\* max_run >= 1).
C24_AdmissibleWithZero ==
    (WellFormed(input) /\ Weighed /\ HasCost(map, 0) /\ 1 <= max_distance
        /\ min_distance <= max_distance)
    => LET togo == ToGo(map, min_distance, max_distance)
       IN  \A n \in Created : \A v \in togo[StateOf(n)] : Heuristic(n) <= v

\* C24 amended: on every rectangular grid, cells of cost 0 included, the
\* Manhattan distance of every Movement created is not negative, is 0 at the
\* bottom-right cell and is at most the least number of steps of a legal
\* completion from its state to a terminal state; it bounds the cost only
\* where every cell costs at least 1.
C24_AtMostTheSteps ==
    (WellFormed(input) /\ Weighed)
    => LET steps == ToGo(UnitCosts(map), min_distance, max_distance)
       IN  \A n \in Created :
              /\ Heuristic(n) >= 0
              /\ n.location = BottomRight(map) => Heuristic(n) = 0
              /\ \A v \in steps[StateOf(n)] : Heuristic(n) <= v

\* On a grid with a cell of cost 0 a Movement was created whose Manhattan
\* distance is higher than the least cost of a legal completion and at most
\* its least number of steps.
C24_Witness ==
    /\ WellFormed(input)
    /\ Weighed
    /\ HasCost(map, 0)
    /\ min_distance <= max_distance
    /\ \E n \in Created :
          /\ \E v \in ToGo(map, min_distance, max_distance)[StateOf(n)] :
                Heuristic(n) > v
          /\ \E v \in ToGo(UnitCosts(map), min_distance, max_distance)[StateOf(n)] :
                Heuristic(n) <= v

\* The headings of the Movements of a state.
Headings == {n.direction : n \in Created}

\* C25: left and right are defined on the four headings and give a heading;
\* left(right(h)) = right(left(h)) = h; four applications of either return
\* h and one, two or three do not; one left or right gives neither h nor
\* the opposite of h; the opposite of h is what two turns in the same sense
\* give, and no other composition of at most two turns gives it.  It holds
\* of every heading, the headings of the Movements of the search included.
C25_Rotation ==
    /\ Headings \subseteq Directions
    /\ \A h \in Directions :
          /\ Left(h) \in Directions
          /\ Right(h) \in Directions
          /\ Left(Right(h)) = h
          /\ Right(Left(h)) = h
          /\ Left(Left(Left(Left(h)))) = h
          /\ Right(Right(Right(Right(h)))) = h
          /\ h \notin {Left(h), Left(Left(h)), Left(Left(Left(h)))}
          /\ h \notin {Right(h), Right(Right(h)), Right(Right(Right(h)))}
          /\ Opposite(h) \notin {h, Left(h), Right(h), Left(Right(h)), Right(Left(h))}
          /\ Left(Left(h)) = Opposite(h)
          /\ Right(Right(h)) = Opposite(h)

\* A search created Movements of all four headings, and the Movement
\* expanded last, which is no seed, has a successor to its left or to its
\* right.
C25_Witness ==
    /\ WellFormed(input)
    /\ Headings = Directions
    /\ \E n \in node :
          /\ n.current_distance >= 1
          /\ \E i \in 1..Len(out) :
                out[i].direction \in {Left(n.direction), Right(n.direction)}

\* The neighbour of a location in a heading: North is the row above, South
\* the row below, East the next column, West the column before.
Neighbour(loc, d) ==
    CASE d = "North" -> <<loc[1] - 1, loc[2]>>
      [] d = "South" -> <<loc[1] + 1, loc[2]>>
      [] d = "East"  -> <<loc[1], loc[2] + 1>>
      [] d = "West"  -> <<loc[1], loc[2] - 1>>

\* C26: on a rectangular grid, for every location inside the grid and every
\* heading, go_direction gives Some(neighbour) when the neighbour is inside
\* the grid and None otherwise; so every successor produced stands on the
\* neighbour of its parent in the successor's heading.
C26_GoDirection ==
    (WellFormed(input) /\ pc # "parse")
    => /\ \A loc \in Cells(map) : \A d \in Directions :
             GoDirection(map, loc, d)
               = (IF InBounds(map, Neighbour(loc, d)) THEN Some(Neighbour(loc, d)) ELSE None)
       /\ \A n \in node : \A i \in 1..Len(out) :
             out[i].location = Neighbour(n.location, out[i].direction)

\* On a grid with two rows and two columns a Movement was expanded whose
\* location has a neighbour inside the grid, where a successor stands, and
\* a neighbour outside, in a heading go_direction was asked for.
C26_Witness ==
    /\ WellFormed(input)
    /\ Len(map) = 2
    /\ Len(map[1]) = 2
    /\ \E n \in node :
          /\ n.current_distance >= 1
          /\ \E i \in 1..Len(out) :
                GoDirection(map, n.location, out[i].direction) = Some(out[i].location)
          /\ \E d \in {n.direction, Left(n.direction), Right(n.direction)} :
                /\ ~InBounds(map, Neighbour(n.location, d))
                /\ GoDirection(map, n.location, d) = None

\* A cycle of zero-cost cells: a grid of two rows and two columns whose
\* cells all cost 0.
ZeroCycle(m) == Len(m) = 2 /\ Len(m[1]) = 2 /\ ~HasCost(m, MaxDigit)

\* C27: on every rectangular grid, those with zero-cost cells and cycles of
\* zero-cost cells included, and for every 0 <= min_run <= max_run, a call
\* that entered the expansion loop eventually finds the heap empty and
\* returns Ok.
C27_Terminates ==
    (pc = "loop") ~> (pc = "done" /\ to_visit = EmptyBag /\ result.kind = "Ok")

\* A search on a cycle of zero-cost cells went round the cycle at no cost (a
\* table holds cost 0 for arriving at the top right cell heading North,
\* three turns after the start) and returned with an empty heap.
C27_Witness ==
    /\ WellFormed(input)
    /\ ZeroCycle(map)
    /\ max_distance >= 1
    /\ Finished
    /\ to_visit = EmptyBag
    /\ result.kind = "Ok"
    /\ \E t \in 1..Len(cache) : cache[t][<<0, 1, Idx("North")>>] = Some(0)

\* The Movements of a sequence.
Produced(nodes) == {nodes[i] : i \in 1..Len(nodes)}

\* C28: (1) a turn candidate (location, heading, run 1) of cost g is
\* discarded only when its table held, before the expansion, an entry of at
\* most g under (location, heading), and the discard leaves the entry; (2)
\* a table is created with no entry, and an entry is written only in an
\* expansion that pushes onto the heap a Movement with that location and
\* heading, run exactly 1, the same table and the entry as its total_cost:
\* so every entry is the total_cost of a run-1 Movement pushed in the same
\* call, pushed before any candidate is discarded against it; (3) a
\* successor with a run above 1 is made from its parent and the map alone
\* and no entry under its (location, heading) changes.
C28_PruningSound ==
    [][/\ calls' = calls =>
             \A t \in 1..Len(cache') :
                IF t > Len(cache)
                THEN \A k \in DOMAIN cache'[t] : cache'[t][k] = None
                ELSE ExpandStep \/ cache'[t] = cache[t]
       /\ ExpandStep =>
             LET n == Unwrap(node')
             IN  /\ \A s \in TurnCandidates(n) :
                       (CanTurn(n) /\ s \notin Produced(out'))
                       => /\ Dominated(s, cache)
                          /\ cache'[n.best][CacheKey(s)] = cache[n.best][CacheKey(s)]
                 /\ \A t \in 1..Len(cache) : \A k \in DOMAIN cache[t] :
                       cache'[t][k] # cache[t][k]
                       => \E s \in Produced(out') :
                             /\ s.current_distance = 1
                             /\ s.best = t
                             /\ CacheKey(s) = k
                             /\ cache'[t][k] = Some(s.total_cost)
                             /\ LoopStep => BagIn(s, to_visit')
                 /\ \A s \in Produced(out') :
                       s.current_distance > 1
                       => /\ s = Successor(n, s.location, n.direction,
                                           n.current_distance + 1)
                          /\ \A t \in 1..Len(cache) :
                                cache'[t][CacheKey(s)] = cache[t][CacheKey(s)]]_vars

\* In one call of available_paths a turn candidate was discarded against an
\* entry strictly below its cost, the entry is as it was, and the straight
\* successor, with a run above 1, was produced.
C28_Witness ==
    /\ WellFormed(input)
    /\ pc = "tested"
    /\ \E n \in node :
          /\ CanTurn(n)
          /\ \E s \in TurnCandidates(n) :
                /\ s \notin Produced(out)
                /\ Dominated(s, cache)
                /\ Unwrap(cache[s.best][CacheKey(s)]) < s.total_cost
                /\ cache[2][CacheKey(s)] = cache[1][CacheKey(s)]
          /\ \E s \in Produced(out) : s.current_distance > 1

\* In a call of seek_end a turn candidate was discarded against an entry
\* strictly below its cost, written by an earlier expansion.
C28_WitnessInSearch ==
    /\ WellFormed(input)
    /\ min_distance <= max_distance
    /\ pc = "loop"
    /\ \E n \in node :
          /\ CanTurn(n)
          /\ \E s \in TurnCandidates(n) :
                /\ s \notin Produced(out)
                /\ Dominated(s, cache)
                /\ Unwrap(cache[s.best][CacheKey(s)]) < s.total_cost

\* C29: with a pop that gives any queued Movement, every execution that
\* returns on a grid and a query returns the result of the execution that
\* pops by weight: the result is that of every other execution.
C29_AnyOrderSameResult ==
    (Finished /\ result.kind = "Ok") => result = SeekEndAlone(min_distance, max_distance)

\* An execution on a grid of one row or one column with a zero-cost cell,
\* with min_run = 0 and max_run >= 1 (each seed has successors up to the
\* bottom-right cell), returned a cost, and the Movement it popped last is
\* its best, recorded when it was pushed: the other seed, which weighs more
\* than it, and that seed's successors were popped while it was queued.
C29_Witness ==
    /\ Finished
    /\ result.kind = "Ok"
    /\ result.val # None
    /\ to_visit = EmptyBag
    /\ HasCost(map, 0)
    /\ (Len(map) = 1 \/ Len(map[1]) = 1)
    /\ min_distance = 0
    /\ max_distance >= 1
    /\ node = best
    /\ \E b \in best : \E d \in {"East", "South"} :
          Weight(MovementNew(<<0, 0>>, d, min_distance, max_distance, 1)) > Weight(b)

\* An execution that pops by weight does not end in such a state: it pops
\* the best, once queued, before the heavier seed.
C29_NotByWeight == ~C29_Witness

\* C30: on a grid whose cells all cost at least 1, every successor weighs
\* at least what its parent weighs; each pop takes a Movement whose weight
\* is the least of the heap, the comparison of weights being reversed for
\* the max-heap; and so the Movement popped weighs at least what the one
\* popped before it weighs.
C30_WeightsNeverDecrease ==
    [][(LoopStep /\ WellFormed(input) /\ CostsAtLeast(map, 1)) =>
        LET n == Unwrap(node')
        IN  /\ \A s \in Produced(out') : Weight(s) >= Weight(n)
            /\ \A m \in BagToSet(to_visit) : Weight(n) <= Weight(m)
            /\ \A p \in node : Weight(n) >= Weight(p)]_vars

\* On such a grid a Movement was popped that weighs more than the seeds, a
\* successor of it weighs more than it, and a heavier Movement was left in
\* the heap.
C30_Witness ==
    /\ WellFormed(input)
    /\ CostsAtLeast(map, 1)
    /\ pc = "loop"
    /\ \E n \in node :
          /\ Weight(n) > Weight(MovementNew(<<0, 0>>, "East", min_distance, max_distance, 1))
          /\ \E s \in Produced(out) : Weight(s) > Weight(n)
          /\ \E m \in BagToSet(to_visit) \ Produced(out) : Weight(m) > Weight(n)

====
